---- MODULE Spec2Model ----
(***************************************************************************)
(* Model of the validating proxy of wallarm/api-firewall:                  *)
(*   validator.ValidateResponse   (validate_response.go, 21-145)           *)
(*   handlers.getValidationHeader (validate_response.go, 187-253)          *)
(*   handlers.performProxy        (validate_response.go, 256-273)          *)
(*   openapiWaf.openapiWafHandler (validate_response.go, 275-477)          *)
(*                                                                         *)
(* Strings are sequences of tokens (a token is a TLA+ string), so that     *)
(* formatting is concatenation and splitting on ";" is computed.  A Go     *)
(* pointer that may be nil is a sequence of length 0 (nil) or 1.           *)
(***************************************************************************)
EXTENDS Integers, Sequences, FiniteSets, TLC

VARIABLES
    cfg,        \* s.cfg: RequestValidation, ResponseValidation, AddValidationStatusHeader, CustomBlockStatusCode
    traffic,    \* which mix the requests, backend answers and validation outcomes are drawn from
    proxyPool,  \* s.proxyPool: the idle backend clients
    parserPool, \* s.parserPool: the number of idle parsers
    req,        \* one record per request running openapiWafHandler
    vrIn,       \* ValidateResponse called on its own: <<the input and the verdict of decoding and visiting>>
    vrOut,      \* ValidateResponse called on its own: <<the result>>, once it returned
    encIn,      \* getValidationHeader called on its own: <<the ctx and the error it is given>>
    encOut,     \* getValidationHeader called on its own: what each call so far returned
    authIn,     \* AuthenticationFunc called on its own: <<the input it is given>>
    authOut     \* AuthenticationFunc called on its own: <<the result>>, once it returned

vars == <<cfg, traffic, proxyPool, parserPool, req, vrIn, vrOut, encIn, encOut, authIn, authOut>>

-----------------------------------------------------------------------------
(* Bounds of the model *)

NumReqs == 2
PoolCap == 1
MaxBodyLen == 2

-----------------------------------------------------------------------------
(* Program constants *)

StatusMovedPermanently == 301
StatusNotModified == 304
StatusTemporaryRedirect == 307
StatusPermanentRedirect == 308
StatusBadRequest == 400
StatusBadGateway == 502
StatusServiceUnavailable == 503
StatusGatewayTimeout == 504

\* s.cfg.CustomBlockStatusCode as configured
CustomBlockStatusCode == 403

ValidationDisable == "DISABLE"
ValidationLog == "LOG_ONLY"
ValidationBlock == "BLOCK"
Modes == {ValidationDisable, ValidationLog, ValidationBlock}

-----------------------------------------------------------------------------
(* Strings, content types, bodies *)

EmptyStr == <<>>

S(t) == <<t>>

MimeJSON == <<"application/json">>
MimeJSONCharset == <<"application/json", ";", " charset=utf-8">>
MimeText == <<"text/plain">>
MimeNone == EmptyStr

\* strings.IndexByte(s, ';'): the index of the first ";" token, 0 when there is none
IndexSemi(s) ==
    IF \E i \in 1..Len(s) : s[i] = ";"
    THEN CHOOSE i \in 1..Len(s) : s[i] = ";" /\ \A j \in 1..(i - 1) : s[j] # ";"
    ELSE 0

\* strings.Split(s, ";")[0]
SplitSemiFirst(s) ==
    IF IndexSemi(s) = 0 THEN s ELSE SubSeq(s, 1, IndexSemi(s) - 1)

\* fmt.Sprintf("%q", s)
Quote(s) == <<"\"">> \o s \o <<"\"">>

Bytes == {0, 1}

Bodies == UNION {[1..n -> Bytes] : n \in 0..MaxBodyLen}

\* A body stream: the bytes, the read position, and whether reading it fails.
Stream(data, bad) == [data |-> data, pos |-> 0, bad |-> bad]

\* bytes.NewReader(b) wrapped in io.NopCloser: a stream that never fails
NewReader(data) == Stream(data, FALSE)

\* io.ReadAll(body): what is read, whether it failed, and the stream afterwards.
\* A failing stream hands over the first half of what is left and then fails.
ReadAll(s) ==
    LET n == Len(s.data)
        stop == IF s.bad THEN s.pos + ((n - s.pos) \div 2) ELSE n
    IN  [data |-> SubSeq(s.data, s.pos + 1, stop),
         err |-> s.bad,
         after |-> [s EXCEPT !.pos = stop]]

-----------------------------------------------------------------------------
(* Errors *)

\* A Go error value.  type is the dynamic type ("nil" for no error); the other
\* fields are those of openapi3filter.ResponseError, RequestError (Parameter is nil
\* or the parameter's name, RequestBody is whether it is non-nil, Err the wrapped
\* error) and SecurityRequirementsError (each requirement is the set of its scheme
\* names, a Go map's keys; Errors are the messages of the per-scheme errors).
Error(type, reason, parameter, requestBody, inner, secReqs, errors) ==
    [type |-> type, Reason |-> reason, Parameter |-> parameter,
     RequestBody |-> requestBody, Err |-> inner,
     SecurityRequirements |-> secReqs, Errors |-> errors]

\* The error wrapped in Err: its dynamic type and, for an openapi3.SchemaError, its Reason
Inner(type, reason) == [type |-> type, Reason |-> reason]

NoInner == Inner("nil", EmptyStr)

NoError == Error("nil", EmptyStr, <<>>, FALSE, NoInner, <<>>, <<>>)

ResponseError(reason) == Error("ResponseError", reason, <<>>, FALSE, NoInner, <<>>, <<>>)

RequestError(reason, parameter, requestBody, inner) ==
    Error("RequestError", reason, parameter, requestBody, inner, <<>>, <<>>)

SecurityRequirementsError(secReqs, errors) ==
    Error("SecurityRequirementsError", EmptyStr, <<>>, FALSE, NoInner, secReqs, errors)

OtherError == Error("other", EmptyStr, <<>>, FALSE, NoInner, <<>>, <<>>)

IsNil(e) == e.type = "nil"

-----------------------------------------------------------------------------
(* openapi3 / openapi3filter data used by ValidateResponse *)

\* openapi3filter.Options
Options(exReq, exResp, inclStatus, multi) ==
    [ExcludeRequestBody |-> exReq, ExcludeResponseBody |-> exResp,
     IncludeResponseStatus |-> inclStatus, MultiError |-> multi]

\* openapi3filter.DefaultOptions = &Options{}
DefaultOptions == Options(FALSE, FALSE, FALSE, FALSE)

\* openapi3.MediaType: Schema is nil (<<>>) or a schema reference
MediaType(schema) == [Schema |-> schema]

\* openapi3.Response: Content maps a content type to a MediaType
Response(content) == [Content |-> content]

\* openapi3.ResponseRef: Value is nil (<<>>) or the resolved response
ResponseRef(value) == [Value |-> value]

\* openapi3.Responses: a map keyed by the status code, and by "default"
Responses(codes, def) == [codes |-> codes, def |-> def]

\* len(responses)
ResponsesLen(responses) == Cardinality(DOMAIN responses.codes) + Len(responses.def)

\* responses.Get(status)
ResponsesGet(responses, status) ==
    IF status \in DOMAIN responses.codes THEN <<responses.codes[status]>> ELSE <<>>

\* responses.Default()
ResponsesDefault(responses) == responses.def

ContentGetExactOnly(content, mime) ==
    IF mime \in DOMAIN content THEN <<content[mime]>> ELSE <<>>

\* content.Get(mime): the exact content type, else the one before its parameters
ContentGet(content, mime) ==
    IF mime \in DOMAIN content THEN <<content[mime]>>
    ELSE IF IndexSemi(mime) = 0 THEN <<>>
    ELSE IF SplitSemiFirst(mime) \in DOMAIN content THEN <<content[SplitSemiFirst(mime)]>>
    ELSE <<>>

\* routers.Route with its Operation's Responses; a nil route is <<>>
Route(responses) == [Responses |-> responses]

\* openapi3filter.ResponseValidationInput (with the request's method and route)
ResponseValidationInput(method, route, status, headerCT, body, options) ==
    [Method |-> method, Route |-> route, Status |-> status, HeaderCT |-> headerCT,
     Body |-> body, Options |-> options]

-----------------------------------------------------------------------------
(* validator.ValidateResponse *)

\* What a call leaves behind: the error returned, input.Body afterwards, how often
\* the original body stream was read, whether it was closed, whether
\* route.Operation.Responses was looked at, and whether the call panicked.
VROut(err, body, reads, closed, consulted, panic) ==
    [err |-> err, Body |-> body, reads |-> reads, closed |-> closed,
     consulted |-> consulted, panic |-> panic]

\* lines 23-26
IsHeadMethod(method) == method = "HEAD"

NeverValidatedStatusNo308(status) ==
    status \in {StatusNotModified, StatusTemporaryRedirect, StatusMovedPermanently}

\* lines 31-37
NeverValidatedStatus(status) ==
    status \in {StatusNotModified, StatusPermanentRedirect,
                StatusTemporaryRedirect, StatusMovedPermanently}

SetBodyBytesDropped(data) == <<>>

\* line 112, input.SetBodyBytes(data): the body becomes a fresh reader over data
SetBodyBytes(data) == <<NewReader(data)>>

\* lines 90-144: the body is read, put back, decoded and visited.  decodeBody and
\* Schema.VisitJSON are called with the bytes read; their verdict is `visit`.
ReadAndValidate(input, visit) ==
    IF input.Body = <<>>
    THEN VROut(NoError, <<>>, 0, FALSE, TRUE, TRUE)
    ELSE LET rd == ReadAll(input.Body[1])
         IN  IF rd.err
             THEN VROut(ResponseError(S("failed to read response body")),
                        <<>>, 1, TRUE, TRUE, FALSE)
             ELSE LET restored == SetBodyBytes(rd.data)
                  IN  IF visit = "decode"
                      THEN VROut(ResponseError(S("failed to decode response body")),
                                 restored, 1, TRUE, TRUE, FALSE)
                      ELSE IF visit = "schema"
                      THEN VROut(ResponseError(S("response body doesn't match the schema")),
                                 restored, 1, TRUE, TRUE, FALSE)
                      ELSE VROut(NoError, restored, 1, TRUE, TRUE, FALSE)

\* lines 60-88: a response definition was found for the status
ValidateResolved(input, visit, options, responseRef) ==
    IF responseRef.Value = <<>>
    THEN VROut(ResponseError(S("response has not been resolved")),
               input.Body, 0, FALSE, TRUE, FALSE)
    ELSE IF options.ExcludeResponseBody
    THEN VROut(NoError, input.Body, 0, FALSE, TRUE, FALSE)
    ELSE LET content == responseRef.Value[1].Content
         IN  IF Cardinality(DOMAIN content) = 0 \/ options.ExcludeResponseBody
             THEN VROut(NoError, input.Body, 0, FALSE, TRUE, FALSE)
             ELSE LET inputMIME == input.HeaderCT
                      contentType == ContentGet(content, inputMIME)
                  IN  IF contentType = <<>>
                      THEN VROut(ResponseError(
                                   S("response header Content-Type has unexpected value: ")
                                   \o Quote(inputMIME)),
                                 input.Body, 0, FALSE, TRUE, FALSE)
                      ELSE IF contentType[1].Schema = <<>>
                      THEN VROut(NoError, input.Body, 0, FALSE, TRUE, FALSE)
                      ELSE ReadAndValidate(input, visit)

\* lines 21-145
ValidateResponse(input, visit) ==
    IF IsHeadMethod(input.Method)
    THEN VROut(NoError, input.Body, 0, FALSE, FALSE, FALSE)
    ELSE IF NeverValidatedStatus(input.Status)
    THEN VROut(NoError, input.Body, 0, FALSE, FALSE, FALSE)
    ELSE IF input.Route = <<>>
    THEN VROut(NoError, input.Body, 0, FALSE, FALSE, TRUE)
    ELSE LET options == IF input.Options = <<>> THEN DefaultOptions ELSE input.Options[1]
             responses == input.Route[1].Responses
         IN  IF ResponsesLen(responses) = 0
             THEN VROut(NoError, input.Body, 0, FALSE, TRUE, FALSE)
             ELSE LET got == ResponsesGet(responses, input.Status)
                      responseRef == IF got = <<>> THEN ResponsesDefault(responses) ELSE got
                  IN  IF responseRef = <<>>
                      THEN IF ~options.IncludeResponseStatus
                           THEN VROut(NoError, input.Body, 0, FALSE, TRUE, FALSE)
                           ELSE VROut(ResponseError(S("status is not supported")),
                                      input.Body, 0, FALSE, TRUE, FALSE)
                      ELSE ValidateResolved(input, visit, options, responseRef[1])

-----------------------------------------------------------------------------
(* handlers.getValidationHeader *)

\* strings.TrimSuffix(s, ",")
TrimSuffixComma(s) ==
    IF Len(s) > 0 /\ s[Len(s)] = "," THEN SubSeq(s, 1, Len(s) - 1) ELSE s

\* fmt's %d
Itoa(n) == <<ToString(n)>>

\* s1 + "," + s2 + "," + ... for the strings of a sequence
RECURSIVE JoinEachComma(_)
JoinEachComma(strs) ==
    IF strs = <<>> THEN EmptyStr
    ELSE Head(strs) \o <<",">> \o JoinEachComma(Tail(strs))

\* The orders in which `for key := range m` may visit the keys of a Go map
RangeOrders(keys) ==
    {p \in [1..Cardinality(keys) -> keys] :
        \A i, j \in 1..Cardinality(keys) : i # j => p[i] # p[j]}

\* lines 236-241: the values secSchemeName may end with
RECURSIVE SecSchemeNames(_)
SecSchemeNames(secReqs) ==
    IF secReqs = <<>> THEN {EmptyStr}
    ELSE {JoinEachComma(p) \o rest :
            p \in RangeOrders(Head(secReqs)), rest \in SecSchemeNames(Tail(secReqs))}

\* The request and response of a fasthttp.RequestCtx, as far as the encoder reads them
EncoderCtx(reqCT, respStatus, respCT) ==
    [reqCT |-> reqCT, respStatus |-> respStatus, respCT |-> respCT]

\* lines 187-253: the values a call may return, each nil (<<>>) or <<the header value>>
getValidationHeader(ctx, err) ==
    IF err.type = "ResponseError"
    THEN LET reason == IF err.Reason # EmptyStr THEN err.Reason ELSE S("unknown")
             id == S("response-") \o Itoa(ctx.respStatus) \o S("-")
                   \o SplitSemiFirst(ctx.respCT)
         IN  {<<id \o S(":") \o reason \o S(":response")>>}
    ELSE IF err.type = "RequestError"
    THEN LET reason0 == IF err.Reason # EmptyStr THEN err.Reason ELSE S("unknown")
         IN  IF err.Parameter # <<>>
             THEN LET reason == IF err.Reason = EmptyStr /\ err.Err.type = "SchemaError"
                                   /\ err.Err.Reason # EmptyStr
                                THEN err.Err.Reason ELSE reason0
                      paramName == IF err.Reason = EmptyStr THEN err.Parameter[1]
                                   ELSE S("request-parameter")
                  IN  {<<S("request-parameter:") \o reason \o S(":") \o paramName>>}
             ELSE IF err.RequestBody
             THEN LET id == S("request-body-") \o SplitSemiFirst(ctx.reqCT)
                  IN  {<<id \o S(":") \o reason0 \o S(":request-body")>>}
             ELSE {<<>>}
    ELSE IF err.type = "SecurityRequirementsError"
    THEN LET secErrors == JoinEachComma(err.Errors)
         IN  {<<S("security-requirements-") \o TrimSuffixComma(secSchemeName) \o S(":")
                 \o TrimSuffixComma(secErrors) \o S(":") \o TrimSuffixComma(secSchemeName)>> :
                secSchemeName \in SecSchemeNames(err.SecurityRequirements)}
    ELSE {<<>>}

-----------------------------------------------------------------------------
(* The pools, the backend and web.RespondError *)

Clients == 1..PoolCap

Reqs == 1..NumReqs

\* proxy.Pool.Get: the first idle client, or an error when none is idle
ProxyPoolGet(pool) ==
    IF pool = <<>> THEN [client |-> 0, err |-> TRUE, pool |-> pool]
    ELSE [client |-> Head(pool), err |-> FALSE, pool |-> Tail(pool)]

\* proxy.Pool.Put: the client is idle again
ProxyPoolPut(pool, clients) == pool \o clients

\* fastjson.ParserPool.Get never fails: an idle parser, or a new one
ParserPoolGet(idle) == IF idle > 0 THEN idle - 1 ELSE 0

\* fastjson.ParserPool.Put
ParserPoolPut(idle, n) == idle + n

\* ctx.Response: status, body, Content-Type and the APIFW-Validation-Status header
CtxResponse(status, body, ct, vs) == [status |-> status, body |-> body, ct |-> ct, vs |-> vs]

\* A fresh fasthttp response: 200, no body
FreshResponse == CtxResponse(200, <<>>, MimeNone, <<>>)

\* web.RespondError(ctx, statusCode, statusHeader): the response is reset to the
\* status code with no body, and carries the header when one is given
RespondError(statusCode, statusHeader) ==
    CtxResponse(statusCode, <<>>, MimeNone, statusHeader)

\* What web.RespondError returns to its caller: an error, so that the caller's
\* `err != nil` holds
RespondErrorReturn == "err"

\* What client.Do may do: fail with a transport error, or fill ctx.Response
BackendFailure(kind) == [kind |-> kind, status |-> 0, body |-> <<>>, ct |-> MimeNone]

BackendResponse(status, body, ct) == [kind |-> "ok", status |-> status, body |-> body, ct |-> ct]

NoBackend == BackendFailure("none")

ProxyErrorStatusAll502(kind) == StatusBadGateway

\* lines 262-269
ProxyErrorStatus(kind) ==
    CASE kind = "ErrDialTimeout" -> StatusGatewayTimeout
      [] kind = "ErrNoFreeConns" -> StatusServiceUnavailable
      [] OTHER -> StatusBadGateway

\* lines 256-273: ctx.Response afterwards, and the error returned
performProxy(outcome) ==
    IF outcome.kind # "ok"
    THEN [resp |-> RespondError(ProxyErrorStatus(outcome.kind), <<>>),
          err |-> RespondErrorReturn]
    ELSE [resp |-> CtxResponse(outcome.status, outcome.body, outcome.ct, <<>>),
          err |-> "nil"]

-----------------------------------------------------------------------------
(* The operations, requests and backend answers the model draws from *)

SchemaRef == <<"schema">>

JSONContent == [m \in {MimeJSON} |-> MediaType(SchemaRef)]

\* no responses declared at all
OpEmpty == Route(Responses(<<>>, <<>>))

\* 200 declared with an application/json schema, nothing else
Op200 == Route(Responses([c \in {200} |-> ResponseRef(<<Response(JSONContent)>>)], <<>>))

\* only a default response, with an application/json schema
OpDefault == Route(Responses(<<>>, <<ResponseRef(<<Response(JSONContent)>>)>>))

\* 200 declared without content
OpNoContent == Route(Responses([c \in {200} |-> ResponseRef(<<Response(<<>>)>>)], <<>>))

\* 200 declared with application/json but no schema
OpNoSchema ==
    Route(Responses([c \in {200} |->
        ResponseRef(<<Response([m \in {MimeJSON} |-> MediaType(<<>>)])>>)], <<>>))

\* 200 declared by a reference that was not resolved
OpUnresolved == Route(Responses([c \in {200} |-> ResponseRef(<<>>)], <<>>))

ErrBody == RequestError(S("doesn't match the schema"), <<>>, TRUE, Inner("SchemaError", S("bad type")))

ErrBare == RequestError(EmptyStr, <<>>, FALSE, NoInner)

ErrSecurity ==
    SecurityRequirementsError(<<{S("basicAuth"), S("apiKey")}>>,
                              <<S("missing basic authorization header"), S("missing X-Key header")>>)

\* shadowAPI.Checker.Check(ctx): nil or an error; it leaves ctx as it is
ShadowAPICheck == {NoError, OtherError}

\* Everything one request may meet
FullTraffic ==
    [routes |-> {<<>>, <<OpEmpty>>, <<Op200>>, <<OpDefault>>, <<OpNoContent>>,
                 <<OpNoSchema>>, <<OpUnresolved>>},
     methods |-> {"GET", "HEAD"},
     reqCTs |-> {MimeNone, MimeJSON, MimeJSONCharset, MimeText},
     convert |-> {TRUE, FALSE},
     reqOutcomes |-> {NoError, ErrBody, ErrBare, ErrSecurity},
     backend |-> {BackendFailure("ErrDialTimeout"), BackendFailure("ErrNoFreeConns"),
                  BackendFailure("ErrConnectionClosed")}
                 \cup {BackendResponse(st, b, ct) :
                        st \in {200, 404, StatusNotModified},
                        b \in {<<>>, <<0, 1>>}, ct \in {MimeJSON, MimeText}},
     visits |-> {"ok", "decode", "schema"},
     shadow |-> ShadowAPICheck]

\* A lighter mix, for many requests at once: every path of the handler, few values
LightTraffic ==
    [routes |-> {<<>>, <<Op200>>},
     methods |-> {"GET"},
     reqCTs |-> {MimeJSON},
     convert |-> {TRUE, FALSE},
     reqOutcomes |-> {NoError, ErrBody},
     backend |-> {BackendFailure("ErrDialTimeout"),
                  BackendResponse(200, <<0, 1>>, MimeJSON),
                  BackendResponse(404, <<>>, MimeText)},
     visits |-> {"ok", "schema"},
     shadow |-> ShadowAPICheck]

\* The mix of this run
Mix == IF traffic = "full" THEN FullTraffic ELSE LightTraffic

Configs ==
    [RequestValidation : Modes, ResponseValidation : Modes,
     AddValidationStatusHeader : BOOLEAN, CustomBlockStatusCode : {CustomBlockStatusCode}]

-----------------------------------------------------------------------------
(* openapiWaf.openapiWafHandler *)

\* One request: where its handler stands (pc), which performProxy call it is at
\* (path), how it left (exit) and what it returned (ret); the request (s.route as
\* matched for it, method, Content-Type, the APIFW-Validation-Status header added
\* to it); what it holds (client, parser); ctx.Response (resp); what the backend
\* answered; the validation errors and the Content-Type response validation was
\* given (inputMIME, line 76); and how often each step ran (authed: the
\* AuthenticationFunc of lines 343-384).
IdleRequest ==
    [pc |-> "idle", path |-> "none", exit |-> "none", ret |-> "none",
     route |-> <<>>, method |-> "GET", reqCT |-> MimeNone, reqVS |-> <<>>,
     client |-> 0, parser |-> FALSE,
     resp |-> FreshResponse, backend |-> NoBackend,
     reqErr |-> NoError, respErr |-> NoError, shadowErr |-> NoError, inputMIME |-> MimeNone,
     gets |-> 0, puts |-> 0, pgets |-> 0, pputs |-> 0,
     proxied |-> 0, reqValidated |-> 0, authed |-> 0, respValidated |-> 0, shadowed |-> 0]

\* Request r is one of the requests of this run and its handler stands at pc
At(r, pc) == r \in DOMAIN req /\ req[r].pc = pc

DeferPutImmediate(client) == <<client>>

\* line 285, defer s.proxyPool.Put(client): nothing goes back to the pool at this line
DeferPut(client) == <<>>

ReleasedClientsLate(rec) == IF rec.client # 0 /\ rec.parser THEN <<rec.client>> ELSE <<>>

\* line 285: the deferred Put runs at every return once the client was acquired
ReleasedClients(rec) == IF rec.client # 0 THEN <<rec.client>> ELSE <<>>

\* line 390: the deferred s.parserPool.Put runs at every return once the parser was acquired
ReleasedParsers(rec) == IF rec.parser THEN 1 ELSE 0

\* A return of the handler: the response stands, the deferred calls run
Return(r, rec, exit, ret) ==
    /\ req' = [req EXCEPT ![r] =
                 [rec EXCEPT !.pc = "done", !.exit = exit, !.ret = ret,
                             !.client = 0, !.parser = FALSE,
                             !.puts = @ + Len(ReleasedClients(rec)),
                             !.pputs = @ + ReleasedParsers(rec)]]
    /\ proxyPool' = ProxyPoolPut(proxyPool, ReleasedClients(rec))
    /\ parserPool' = ParserPoolPut(parserPool, ReleasedParsers(rec))

\* lines 275-285: a request arrives and the handler asks the pool for a client
AcquireClient(r) ==
    /\ At(r, "idle")
    /\ \E route \in Mix.routes, method \in Mix.methods, ct \in Mix.reqCTs :
         LET got == ProxyPoolGet(proxyPool)
             rec == [req[r] EXCEPT !.route = route, !.method = method, !.reqCT = ct]
         IN  IF got.err
             THEN Return(r, [rec EXCEPT !.resp = RespondError(StatusServiceUnavailable, <<>>)],
                         "poolfail", RespondErrorReturn)
             ELSE /\ req' = [req EXCEPT ![r] =
                               [rec EXCEPT !.pc = "dispatch", !.client = got.client,
                                           !.gets = @ + 1]]
                  /\ proxyPool' = ProxyPoolPut(got.pool, DeferPut(got.client))
                  /\ UNCHANGED parserPool
    /\ UNCHANGED <<cfg, traffic, vrIn, vrOut, encIn, encOut, authIn, authOut>>

BothDisabledTypo ==
    cfg.RequestValidation = ValidationDisable /\ cfg.RequestValidation = ValidationBlock

EitherBlockRequestOnly == cfg.RequestValidation = ValidationBlock

RequestBlockedAnyMode(mode, err, vh) == ~IsNil(err)

BothDisabled ==
    cfg.RequestValidation = ValidationDisable /\ cfg.ResponseValidation = ValidationDisable

EitherBlock ==
    cfg.RequestValidation = ValidationBlock \/ cfg.ResponseValidation = ValidationBlock

EitherLogRequestOnly == cfg.RequestValidation = ValidationLog

EitherLog ==
    cfg.RequestValidation = ValidationLog \/ cfg.ResponseValidation = ValidationLog

\* lines 287-290: both modes disabled, the request goes to the bare proxy call
DispatchDisabled(r) ==
    /\ At(r, "dispatch")
    /\ BothDisabled
    /\ req' = [req EXCEPT ![r].pc = "proxy", ![r].path = "bare"]
    /\ UNCHANGED <<cfg, traffic, proxyPool, parserPool, vrIn, vrOut, encIn, encOut, authIn, authOut>>

\* lines 293-300: no route, a mode is Block
RouteNotFoundBlock(r) ==
    /\ At(r, "dispatch")
    /\ ~BothDisabled
    /\ req[r].route = <<>>
    /\ EitherBlock
    /\ LET vh == IF cfg.AddValidationStatusHeader
                 THEN <<S("request: route not found")>> ELSE <<>>
       IN  Return(r, [req[r] EXCEPT !.resp = RespondError(cfg.CustomBlockStatusCode, vh)],
                  "notfoundblock", RespondErrorReturn)
    /\ UNCHANGED <<cfg, traffic, vrIn, vrOut, encIn, encOut, authIn, authOut>>

\* lines 302-305: no route, no mode is Block, a mode is LogOnly
RouteNotFoundLog(r) ==
    /\ At(r, "dispatch")
    /\ ~BothDisabled
    /\ req[r].route = <<>>
    /\ ~EitherBlock
    /\ EitherLog
    /\ req' = [req EXCEPT ![r].pc = "proxy", ![r].path = "shadow"]
    /\ UNCHANGED <<cfg, traffic, proxyPool, parserPool, vrIn, vrOut, encIn, encOut, authIn, authOut>>

\* Whether the handler goes on to line 316: with a route, or with no route when
\* neither branch of lines 294-313 returned
PastRouteCheck(rec) ==
    \/ rec.route # <<>>
    \/ (~EitherBlock /\ ~EitherLog)

\* lines 316-390: the request is converted, the validation input built, a parser acquired
ConvertRequest(r) ==
    /\ At(r, "dispatch")
    /\ ~BothDisabled
    /\ PastRouteCheck(req[r])
    /\ \E ok \in Mix.convert :
         IF ~ok
         THEN Return(r, [req[r] EXCEPT !.resp = RespondError(StatusBadRequest, <<>>)],
                     "convertfail", RespondErrorReturn)
         ELSE /\ req' = [req EXCEPT ![r].pc = "validate", ![r].parser = TRUE,
                                    ![r].pgets = @ + 1]
              /\ parserPool' = ParserPoolGet(parserPool)
              /\ UNCHANGED proxyPool
    /\ UNCHANGED <<cfg, traffic, vrIn, vrOut, encIn, encOut, authIn, authOut>>

\* The fasthttp.RequestCtx as getValidationHeader reads it
CtxOf(rec) == EncoderCtx(rec.reqCT, rec.resp.status, rec.resp.ct)

BlockHeadersAlways(rec, err) == getValidationHeader(CtxOf(rec), err)

\* lines 399-409 and 455-465: the header value handed to web.RespondError
BlockHeaders(rec, err) ==
    IF cfg.AddValidationStatusHeader THEN getValidationHeader(CtxOf(rec), err) ELSE {<<>>}

RequestBlockedOnlyWithHeader(mode, err, vh) ==
    mode = ValidationBlock /\ ~IsNil(err) /\ vh # <<>>

\* lines 393-410: in Block mode an error ends the request, with or without a header value
RequestBlocked(mode, err, vh) == mode = ValidationBlock /\ ~IsNil(err)

\* lines 392-418: whether validator.ValidateRequest is called
RequestValidationRuns(mode) == mode \in {ValidationBlock, ValidationLog}

\* validator.ValidateRequest calls input.Options.AuthenticationFunc (lines 343-384)
\* when the operation has security requirements: how often it ran, given the
\* error ValidateRequest returned
AuthenticationRuns(err) ==
    IF err.type = "SecurityRequirementsError" THEN {1} ELSE {0, 1}

\* lines 392-418: request validation, by mode
ValidateRequestStep(r) ==
    /\ At(r, "validate")
    /\ IF ~RequestValidationRuns(cfg.RequestValidation)
       THEN /\ req' = [req EXCEPT ![r].pc = "proxy", ![r].path = "main"]
            /\ UNCHANGED <<proxyPool, parserPool>>
       ELSE \E err \in Mix.reqOutcomes : \E auth \in AuthenticationRuns(err) :
              LET rec == [req[r] EXCEPT !.reqErr = err, !.reqValidated = @ + 1,
                                        !.authed = @ + auth]
              IN  \E vh \in BlockHeaders(rec, err) :
                    IF RequestBlocked(cfg.RequestValidation, err, vh)
                    THEN Return(r, [rec EXCEPT
                                      !.reqVS = IF vh # <<>> THEN vh ELSE @,
                                      !.resp = RespondError(cfg.CustomBlockStatusCode, vh)],
                                "reqblock", RespondErrorReturn)
                    ELSE /\ req' = [req EXCEPT ![r] =
                                      [rec EXCEPT !.pc = "proxy", !.path = "main"]]
                         /\ UNCHANGED <<proxyPool, parserPool>>
    /\ UNCHANGED <<cfg, traffic, vrIn, vrOut, encIn, encOut, authIn, authOut>>

ProxyFailedNever(err) == FALSE

\* line 420: `if err := performProxy(...); err != nil`
ProxyFailed(err) == err # "nil"

ShadowReturnPropagates(err, sErr) == IF IsNil(sErr) THEN err ELSE RespondErrorReturn

\* lines 305-312: s.shadowAPI.Check runs after performProxy; its error sErr is
\* logged, and the handler returns performProxy's err
ShadowReturn(err, sErr) == err

\* lines 289, 305-312 and 420-422: the backend call, from each of its three call sites
Proxy(r) ==
    /\ At(r, "proxy")
    /\ \E outcome \in Mix.backend, sErr \in Mix.shadow :
         LET pp == performProxy(outcome)
             rec == [req[r] EXCEPT !.resp = pp.resp, !.backend = outcome,
                                   !.proxied = @ + 1]
         IN  CASE rec.path = "bare" ->
                    Return(r, rec, IF pp.err = "nil" THEN "bare" ELSE "transport", pp.err)
               [] rec.path = "shadow" ->
                    Return(r, [rec EXCEPT !.shadowed = @ + 1, !.shadowErr = sErr],
                           IF pp.err = "nil" THEN "notfoundlog" ELSE "transport",
                           ShadowReturn(pp.err, sErr))
               [] OTHER ->
                    IF ProxyFailed(pp.err)
                    THEN Return(r, rec, "transport", pp.err)
                    ELSE /\ req' = [req EXCEPT ![r] = [rec EXCEPT !.pc = "respvalidate"]]
                         /\ UNCHANGED <<proxyPool, parserPool>>
    /\ UNCHANGED <<cfg, traffic, vrIn, vrOut, encIn, encOut, authIn, authOut>>

HandlerResponseOptionsLenient == Options(FALSE, FALSE, FALSE, FALSE)

\* lines 438-444
HandlerResponseOptions == Options(FALSE, FALSE, TRUE, FALSE)

\* lines 425-431: respHeader is filled from ctx.Request.Header
HandlerResponseHeaderCT(rec) == rec.reqCT

\* lines 433-445
HandlerResponseInput(rec) ==
    ResponseValidationInput(rec.method, rec.route, rec.resp.status,
                            HandlerResponseHeaderCT(rec),
                            <<NewReader(rec.resp.body)>>, <<HandlerResponseOptions>>)

\* lines 448-449 and 467: whether validator.ValidateResponse is called
ResponseValidationRuns(mode) == mode \in {ValidationBlock, ValidationLog}

ResponseBlockedInLogToo(mode, err) == ~IsNil(err)

\* lines 449-466: in Block mode an error ends the request with the block status
ResponseBlocked(mode, err) == mode = ValidationBlock /\ ~IsNil(err)

\* lines 424-476: response validation, by mode, and the return
ValidateResponseStep(r) ==
    /\ At(r, "respvalidate")
    /\ IF ~ResponseValidationRuns(cfg.ResponseValidation)
       THEN Return(r, req[r], "normal", "nil")
       ELSE \E visit \in Mix.visits :
              LET out == ValidateResponse(HandlerResponseInput(req[r]), visit)
                  rec == [req[r] EXCEPT !.respErr = out.err, !.respValidated = @ + 1,
                                        !.inputMIME = HandlerResponseInput(req[r]).HeaderCT]
              IN  IF ResponseBlocked(cfg.ResponseValidation, out.err)
                  THEN \E vh \in BlockHeaders(rec, out.err) :
                         Return(r, [rec EXCEPT
                                      !.resp = RespondError(cfg.CustomBlockStatusCode, vh)],
                                "respblock", RespondErrorReturn)
                  ELSE Return(r, rec, "normal", "nil")
    /\ UNCHANGED <<cfg, traffic, vrIn, vrOut, encIn, encOut, authIn, authOut>>

-----------------------------------------------------------------------------
(* ValidateResponse called on its own *)

VROptions ==
    {<<>>, <<HandlerResponseOptions>>, <<Options(FALSE, TRUE, TRUE, FALSE)>>,
     <<Options(FALSE, FALSE, FALSE, TRUE)>>}

VRBodies ==
    {<<>>} \cup {<<Stream(data, bad)>> : data \in Bodies, bad \in BOOLEAN}

VRInputs ==
    {ResponseValidationInput(method, route, status, ct, body, options) :
        method \in {"GET", "HEAD"},
        route \in {<<>>, <<OpEmpty>>, <<Op200>>, <<OpDefault>>, <<OpNoContent>>,
                   <<OpNoSchema>>, <<OpUnresolved>>},
        status \in {200, StatusMovedPermanently, StatusNotModified,
                    StatusTemporaryRedirect, StatusPermanentRedirect, 404},
        ct \in {MimeNone, MimeJSON, MimeJSONCharset, MimeText},
        body \in VRBodies,
        options \in VROptions}

CallValidateResponse ==
    /\ vrIn # <<>>
    /\ vrOut = <<>>
    /\ vrOut' = <<ValidateResponse(vrIn[1].input, vrIn[1].visit)>>
    /\ UNCHANGED <<cfg, traffic, proxyPool, parserPool, req, vrIn, encIn, encOut, authIn, authOut>>

-----------------------------------------------------------------------------
(* getValidationHeader called on its own *)

EncReasons == {EmptyStr, S("must be an integer")}

EncInners ==
    {NoInner, Inner("other", EmptyStr), Inner("SchemaError", EmptyStr),
     Inner("SchemaError", S("number must be at least 1"))}

EncRequestErrors ==
    {RequestError(reason, parameter, requestBody, inner) :
        reason \in EncReasons, parameter \in {<<>>, <<S("petId")>>},
        requestBody \in BOOLEAN, inner \in EncInners}

EncResponseErrors == {ResponseError(reason) : reason \in {EmptyStr, S("status is not supported")}}

\* Each requirement is a map keyed by scheme name; Errors has one message per requirement
EncSecurityErrors ==
    {SecurityRequirementsError(secReqs, errors) :
        secReqs \in {<<>>, <<{S("basicAuth")}>>, <<{S("basicAuth"), S("apiKey")}>>,
                     <<{S("basicAuth")}, {S("apiKey")}>>},
        errors \in {<<>>, <<S("missing basic authorization header")>>,
                    <<S("missing basic authorization header"), S("missing X-Key header")>>}}

EncErrors == EncRequestErrors \cup EncResponseErrors \cup EncSecurityErrors \cup {OtherError}

EncCtxs ==
    {EncoderCtx(reqCT, respStatus, respCT) :
        reqCT \in {MimeNone, MimeJSONCharset}, respStatus \in {200, 404},
        respCT \in {MimeJSON, MimeJSONCharset}}

\* One call of getValidationHeader on the same ctx and err as the calls before it
CallGetValidationHeader ==
    /\ encIn # <<>>
    /\ Len(encOut) < 2
    /\ \E vh \in getValidationHeader(encIn[1].ctx, encIn[1].err) :
         encOut' = Append(encOut, vh)
    /\ UNCHANGED <<cfg, traffic, proxyPool, parserPool, req, vrIn, vrOut, encIn, authIn, authOut>>

-----------------------------------------------------------------------------
(* The AuthenticationFunc of the request validation input, lines 343-384 *)

\* strings.ToLower, on the words an Authorization value starts with
ToLowerToken(t) ==
    CASE t \in {"Basic", "BASIC"} -> "basic"
      [] t \in {"Bearer", "BEARER"} -> "bearer"
      [] OTHER -> t

ToLower(s) == [i \in 1..Len(s) |-> ToLowerToken(s[i])]

\* strings.HasPrefix
HasPrefix(s, prefix) == Len(s) >= Len(prefix) /\ SubSeq(s, 1, Len(prefix)) = prefix

\* openapi3filter.AuthenticationInput as the function reads it: the security
\* scheme (Type, Scheme, In, Name); the request's Authorization header, its header
\* and its query parameter called Name (empty when absent) and whether it has a
\* cookie called Name; s.oauthValidator ("nil" when not configured, else how its
\* Validate answers)
AuthenticationInput(type, scheme, in, name, authorization, header, query, cookie, validator) ==
    [Type |-> type, Scheme |-> scheme, In |-> in, Name |-> name,
     Authorization |-> authorization, Header |-> header, Query |-> query,
     Cookie |-> cookie, oauthValidator |-> validator]

\* What a call returns (nil is <<>>, else <<the message>>) and which of the
\* request's credentials and of the validator it looked at
AuthResult(err, inspected) == [err |-> err, inspected |-> inspected]

AuthOK(inspected) == AuthResult(<<>>, inspected)

AuthError(msg, inspected) == AuthResult(<<msg>>, inspected)

AuthHTTPNoBearer(input) ==
    IF input.Scheme = "basic"
    THEN IF input.Authorization = EmptyStr
            \/ ~HasPrefix(ToLower(input.Authorization), <<"basic", " ">>)
         THEN AuthError(S("missing basic authorization header"), {"Authorization"})
         ELSE AuthOK({"Authorization"})
    ELSE AuthOK({})

\* lines 345-357
AuthHTTP(input) ==
    IF input.Scheme = "basic"
    THEN IF input.Authorization = EmptyStr
            \/ ~HasPrefix(ToLower(input.Authorization), <<"basic", " ">>)
         THEN AuthError(S("missing basic authorization header"), {"Authorization"})
         ELSE AuthOK({"Authorization"})
    ELSE IF input.Scheme = "bearer"
    THEN IF input.Authorization = EmptyStr
            \/ ~HasPrefix(ToLower(input.Authorization), <<"bearer", " ">>)
         THEN AuthError(S("missing bearer authorization header"), {"Authorization"})
         ELSE AuthOK({"Authorization"})
    ELSE AuthOK({})

\* lines 358-364
AuthOAuth(input) ==
    IF input.oauthValidator = "nil"
    THEN AuthError(S("oauth2 validator not configured"), {"oauthValidator"})
    ELSE IF input.oauthValidator = "reject"
    THEN AuthError(S("oauth2 error: ") \o S("token rejected"),
                   {"oauthValidator", "Authorization"})
    ELSE AuthOK({"oauthValidator", "Authorization"})

\* lines 366-381
AuthAPIKey(input) ==
    IF input.In = "header"
    THEN IF input.Header = EmptyStr
         THEN AuthError(S("missing ") \o input.Name \o S(" header"), {"Header"})
         ELSE AuthOK({"Header"})
    ELSE IF input.In = "query"
    THEN IF input.Query = EmptyStr
         THEN AuthError(S("missing ") \o input.Name \o S(" query parameter"), {"Query"})
         ELSE AuthOK({"Query"})
    ELSE IF input.In = "cookie"
    THEN IF ~input.Cookie
         THEN AuthError(S("missing ") \o input.Name \o S(" cookie"), {"Cookie"})
         ELSE AuthOK({"Cookie"})
    ELSE AuthOK({})

\* lines 343-384
AuthenticationFunc(input) ==
    IF input.Type = "http" THEN AuthHTTP(input)
    ELSE IF input.Type \in {"oauth2", "openIdConnect"} THEN AuthOAuth(input)
    ELSE IF input.Type = "apiKey" THEN AuthAPIKey(input)
    ELSE AuthOK({})

AuthorizationValues ==
    {EmptyStr, <<"Basic", " ", "dXNlcjpwdw==">>, <<"BASIC", " ", "dXNlcjpwdw==">>,
     <<"basic">>, <<"Bearer", " ", "token">>, <<"Token", " ", "token">>}

AuthInputs ==
    {AuthenticationInput(type, scheme, in, S("X-Key"), authorization, header, query,
                         cookie, validator) :
        type \in {"http", "oauth2", "openIdConnect", "apiKey", "mutualTLS"},
        scheme \in {"basic", "bearer", "digest", "Basic"},
        in \in {"header", "query", "cookie", "path"},
        authorization \in AuthorizationValues,
        header \in {EmptyStr, S("secret")},
        query \in {EmptyStr, S("secret")},
        cookie \in BOOLEAN,
        validator \in {"nil", "accept", "reject"}}

CallAuthenticationFunc ==
    /\ authIn # <<>>
    /\ authOut = <<>>
    /\ authOut' = <<AuthenticationFunc(authIn[1])>>
    /\ UNCHANGED <<cfg, traffic, proxyPool, parserPool, req, vrIn, vrOut, encIn, encOut, authIn>>

-----------------------------------------------------------------------------
(* Specifications *)

InitWith(n, mix) ==
    /\ cfg \in Configs
    /\ traffic = mix
    /\ proxyPool = [i \in Clients |-> i]
    /\ parserPool = 0
    /\ req = [r \in 1..n |-> IdleRequest]
    /\ vrIn = <<>>
    /\ vrOut = <<>>
    /\ encIn = <<>>
    /\ encOut = <<>>
    /\ authIn = <<>>
    /\ authOut = <<>>

\* One request at a time, everything it may meet
Init == InitWith(1, "full")

\* NumReqs requests at once, sharing the pools
InitConc == InitWith(NumReqs, "light")

Next ==
    \/ \E r \in Reqs : AcquireClient(r)
    \/ \E r \in Reqs : DispatchDisabled(r)
    \/ \E r \in Reqs : RouteNotFoundBlock(r)
    \/ \E r \in Reqs : RouteNotFoundLog(r)
    \/ \E r \in Reqs : ConvertRequest(r)
    \/ \E r \in Reqs : ValidateRequestStep(r)
    \/ \E r \in Reqs : Proxy(r)
    \/ \E r \in Reqs : ValidateResponseStep(r)

Spec == Init /\ [][Next]_vars

SpecConc == InitConc /\ [][Next]_vars

InitVR ==
    /\ cfg = [RequestValidation |-> ValidationDisable, ResponseValidation |-> ValidationDisable,
              AddValidationStatusHeader |-> FALSE,
              CustomBlockStatusCode |-> CustomBlockStatusCode]
    /\ traffic = "light"
    /\ proxyPool = [i \in Clients |-> i]
    /\ parserPool = 0
    /\ req = <<>>
    /\ vrIn \in {<<call>> : call \in [input : VRInputs, visit : {"ok", "decode", "schema"}]}
    /\ vrOut = <<>>
    /\ encIn = <<>>
    /\ encOut = <<>>
    /\ authIn = <<>>
    /\ authOut = <<>>

NextVR == CallValidateResponse

SpecVR == InitVR /\ [][NextVR]_vars

InitEnc ==
    /\ cfg = [RequestValidation |-> ValidationBlock, ResponseValidation |-> ValidationBlock,
              AddValidationStatusHeader |-> TRUE,
              CustomBlockStatusCode |-> CustomBlockStatusCode]
    /\ traffic = "light"
    /\ proxyPool = [i \in Clients |-> i]
    /\ parserPool = 0
    /\ req = <<>>
    /\ vrIn = <<>>
    /\ vrOut = <<>>
    /\ encIn \in {<<call>> : call \in [ctx : EncCtxs, err : EncErrors]}
    /\ encOut = <<>>
    /\ authIn = <<>>
    /\ authOut = <<>>

NextEnc == CallGetValidationHeader

SpecEnc == InitEnc /\ [][NextEnc]_vars

InitAuth ==
    /\ cfg = [RequestValidation |-> ValidationBlock, ResponseValidation |-> ValidationDisable,
              AddValidationStatusHeader |-> FALSE,
              CustomBlockStatusCode |-> CustomBlockStatusCode]
    /\ traffic = "light"
    /\ proxyPool = [i \in Clients |-> i]
    /\ parserPool = 0
    /\ req = <<>>
    /\ vrIn = <<>>
    /\ vrOut = <<>>
    /\ encIn = <<>>
    /\ encOut = <<>>
    /\ authIn \in {<<input>> : input \in AuthInputs}
    /\ authOut = <<>>

NextAuth == CallAuthenticationFunc

SpecAuth == InitAuth /\ [][NextAuth]_vars

-----------------------------------------------------------------------------
(* Properties *)

Matched(rec) == rec.route # <<>>

Done(rec) == rec.pc = "done"

\* The client sees exactly what the backend answered, and no diagnostic header
PassedThrough(rec) ==
    /\ rec.backend.kind = "ok"
    /\ rec.resp.status = rec.backend.status
    /\ rec.resp.body = rec.backend.body
    /\ rec.resp.ct = rec.backend.ct
    /\ rec.resp.vs = <<>>

\* The client sees the configured block status and nothing of the backend
BlockedResponse(rec) ==
    /\ rec.resp.status = cfg.CustomBlockStatusCode
    /\ rec.resp.body = <<>>

RequestFailedInBlockMode(rec) ==
    /\ Matched(rec)
    /\ cfg.RequestValidation = ValidationBlock
    /\ rec.reqValidated > 0
    /\ ~IsNil(rec.reqErr)

\* C1: with a matched route and request mode Block, a request whose validation
\* returned an error is answered with the configured block status code and its
\* backend call is never made, with the diagnostic header on or off and whether
\* or not the encoder gave a value.
C1_RequestBlock ==
    \A r \in DOMAIN req :
        RequestFailedInBlockMode(req[r]) =>
            /\ Done(req[r])
            /\ req[r].exit = "reqblock"
            /\ BlockedResponse(req[r])
            /\ req[r].proxied = 0
            /\ req[r].backend = NoBackend

\* C1 witness: a blocked request with the header enabled for which the encoder
\* returned no value.
C1_Witness ==
    \E r \in DOMAIN req :
        /\ RequestFailedInBlockMode(req[r])
        /\ cfg.AddValidationStatusHeader
        /\ req[r].reqErr = ErrBare
        /\ req[r].resp.vs = <<>>
        /\ BlockedResponse(req[r])

RequestFailedInLogMode(rec) ==
    /\ Matched(rec)
    /\ cfg.RequestValidation = ValidationLog
    /\ rec.reqValidated > 0
    /\ ~IsNil(rec.reqErr)

\* C2 as stated: with a matched route and request mode LogOnly, a request whose
\* validation returned an error still reaches the backend, and the backend's
\* response is what the client receives, whatever the response mode and the
\* outcome of response validation.
C2_LogOnlyPassesThrough ==
    \A r \in DOMAIN req :
        (RequestFailedInLogMode(req[r]) /\ Done(req[r])) =>
            /\ req[r].proxied = 1
            /\ (req[r].backend.kind = "ok" => PassedThrough(req[r]))

\* C2 amended: such a request still reaches the backend, exactly once; when the
\* backend answers, the client receives that answer unchanged, except when the
\* response mode is Block and response validation fails: then it receives the
\* configured block status code.
C2_LogOnlyUnlessResponseBlocked ==
    \A r \in DOMAIN req :
        RequestFailedInLogMode(req[r]) =>
            /\ req[r].pc \in {"proxy", "respvalidate", "done"}
            /\ (req[r].pc # "proxy" => req[r].proxied = 1)
            /\ (Done(req[r]) /\ req[r].backend.kind = "ok") =>
                  IF cfg.ResponseValidation = ValidationBlock /\ ~IsNil(req[r].respErr)
                  THEN BlockedResponse(req[r])
                  ELSE PassedThrough(req[r])

\* C2 witness: a request whose validation failed in LogOnly mode, answered by
\* the backend, and then blocked by response validation.
C2_Witness ==
    \E r \in DOMAIN req :
        /\ RequestFailedInLogMode(req[r])
        /\ Done(req[r])
        /\ req[r].backend.kind = "ok"
        /\ cfg.ResponseValidation = ValidationBlock
        /\ ~IsNil(req[r].respErr)
        /\ BlockedResponse(req[r])
        /\ req[r].backend.status # cfg.CustomBlockStatusCode

ModesDisabled ==
    cfg.RequestValidation = ValidationDisable /\ cfg.ResponseValidation = ValidationDisable

NothingButProxy(rec) ==
    /\ rec.reqValidated = 0
    /\ rec.respValidated = 0
    /\ rec.shadowed = 0
    /\ rec.pgets = 0
    /\ ~rec.parser

\* C3 as stated: with both modes Disabled every request is proxied exactly once,
\* without validation, shadow-API check or parser, and a backend response
\* reaches the client as it is.
C3_DisabledPassThrough ==
    \A r \in DOMAIN req :
        (ModesDisabled /\ Done(req[r])) =>
            /\ NothingButProxy(req[r])
            /\ req[r].proxied = 1
            /\ (req[r].backend.kind = "ok" => PassedThrough(req[r]))

\* C3 amended: with both modes Disabled no request is validated, checked for
\* shadow API or given a parser; a request that acquired a connection-pool client
\* is proxied exactly once and a backend response reaches the client as it is; a
\* request whose acquisition failed is answered 503 without any backend call.
C3_DisabledPassThroughOnceAcquired ==
    \A r \in DOMAIN req :
        ModesDisabled =>
            /\ NothingButProxy(req[r])
            /\ req[r].proxied <= 1
            /\ (Done(req[r]) /\ req[r].gets = 1) =>
                  /\ req[r].proxied = 1
                  /\ (req[r].backend.kind = "ok" => PassedThrough(req[r]))
            /\ (Done(req[r]) /\ req[r].gets = 0) =>
                  /\ req[r].proxied = 0
                  /\ req[r].resp.status = StatusServiceUnavailable

\* C3 witness: both modes Disabled, a matched route, the backend's 404 handed on.
C3_Witness ==
    \E r \in DOMAIN req :
        /\ ModesDisabled
        /\ Done(req[r])
        /\ Matched(req[r])
        /\ req[r].proxied = 1
        /\ req[r].backend.status = 404
        /\ PassedThrough(req[r])

TransportFailed(rec) == rec.backend.kind \notin {"none", "ok"}

\* C4: a backend call that fails with a transport error ends the request with
\* 504 for a dial timeout, 503 for no free connections and 502 for anything
\* else, under every pair of modes; the call is made once and response
\* validation does not run.
C4_TransportFailure ==
    \A r \in DOMAIN req :
        TransportFailed(req[r]) =>
            /\ Done(req[r])
            /\ req[r].exit = "transport"
            /\ req[r].proxied = 1
            /\ req[r].respValidated = 0
            /\ req[r].resp.body = <<>>
            /\ req[r].resp.vs = <<>>
            /\ req[r].resp.status =
                  IF req[r].backend.kind = "ErrDialTimeout" THEN 504
                  ELSE IF req[r].backend.kind = "ErrNoFreeConns" THEN 503
                  ELSE 502

\* C4 witness: a dial timeout under response mode Block, for a matched route
\* whose request passed validation.
C4_Witness ==
    \E r \in DOMAIN req :
        /\ req[r].backend.kind = "ErrDialTimeout"
        /\ cfg.ResponseValidation = ValidationBlock
        /\ Matched(req[r])
        /\ req[r].reqValidated = 1
        /\ req[r].resp.status = 504

\* C5: on every exit path each pooled resource the request acquired - the
\* connection-pool client and, if acquired, the parser - is released exactly
\* once, and no client is released when its acquisition failed.
C5_ReleasedExactlyOnce ==
    \A r \in DOMAIN req :
        /\ req[r].puts <= req[r].gets
        /\ req[r].gets <= 1
        /\ req[r].pputs <= req[r].pgets
        /\ req[r].pgets <= 1
        /\ (req[r].client # 0) = (req[r].gets = 1 /\ req[r].puts = 0)
        /\ req[r].parser = (req[r].pgets = 1 /\ req[r].pputs = 0)
        /\ Done(req[r]) =>
              /\ req[r].exit \in {"poolfail", "bare", "notfoundblock", "notfoundlog",
                                  "convertfail", "reqblock", "transport", "respblock",
                                  "normal"}
              /\ req[r].puts = req[r].gets
              /\ req[r].pputs = req[r].pgets
              /\ req[r].gets = (IF req[r].exit = "poolfail" THEN 0 ELSE 1)
              /\ (req[r].exit \in {"reqblock", "respblock", "normal"} => req[r].pgets = 1)

\* C5 witness: one request left on a failed acquisition, having released
\* nothing; another left by the not-found block, its client released once and
\* no parser acquired.
C5_Witness ==
    \E r1, r2 \in DOMAIN req :
        /\ req[r1].exit = "poolfail"
        /\ req[r1].puts = 0
        /\ req[r2].exit = "notfoundblock"
        /\ req[r2].gets = 1
        /\ req[r2].puts = 1
        /\ req[r2].pgets = 0

Holders(c) == {r \in DOMAIN req : req[r].client = c}

\* C6: with the requests running concurrently, the clients acquired and not yet
\* released are never more than the pool's capacity, no client is held by two
\* requests at once, and no held client is idle in the pool.
C6_PoolBound ==
    /\ Cardinality({r \in DOMAIN req : req[r].client # 0}) <= PoolCap
    /\ \A c \in Clients : Cardinality(Holders(c)) <= 1
    /\ \A c \in Clients :
          Cardinality(Holders(c)) + Cardinality({i \in 1..Len(proxyPool) : proxyPool[i] = c}) = 1

\* C6 witness: every client of the pool is held, each by a request in the
\* middle of its handler, and a further request was turned away.
C6_Witness ==
    /\ \A c \in Clients : \E r \in DOMAIN req : req[r].client = c /\ req[r].pc = "proxy"
    /\ proxyPool = <<>>
    /\ \E r \in DOMAIN req : req[r].exit = "poolfail"

VRCalled == vrIn # <<>> /\ vrOut # <<>>

EarlyOut(input) ==
    \/ input.Method = "HEAD"
    \/ input.Status \in {301, 304, 307, 308}

\* C7: for a HEAD request, or a response status of 301, 304, 307 or 308,
\* ValidateResponse returns success without reading the body and without
\* looking at the route's responses, whatever the options and the schemas.
C7_EarlyOut ==
    (VRCalled /\ EarlyOut(vrIn[1].input)) =>
        /\ IsNil(vrOut[1].err)
        /\ ~vrOut[1].panic
        /\ vrOut[1].reads = 0
        /\ ~vrOut[1].closed
        /\ ~vrOut[1].consulted
        /\ vrOut[1].Body = vrIn[1].input.Body

\* C7 witness: a GET answered 308, for an operation that declares only 200,
\* with undocumented statuses refused, returned as valid.
C7_Witness ==
    /\ VRCalled
    /\ vrIn[1].input.Method = "GET"
    /\ vrIn[1].input.Status = 308
    /\ vrIn[1].input.Route = <<Op200>>
    /\ vrIn[1].input.Options = <<HandlerResponseOptions>>
    /\ vrIn[1].input.Body # <<>>
    /\ IsNil(vrOut[1].err)

\* The operation declares nothing for the status: no entry and no default
Undeclared(rec) ==
    /\ Matched(rec)
    /\ rec.backend.kind = "ok"
    /\ rec.backend.status \notin DOMAIN rec.route[1].Responses.codes
    /\ rec.route[1].Responses.def = <<>>

\* C8 as stated: for a matched route and a status the operation declares
\* nothing for, the handler's response validation succeeds.
C8_UndeclaredStatusSucceeds ==
    \A r \in DOMAIN req :
        (Undeclared(req[r]) /\ req[r].respValidated > 0) => IsNil(req[r].respErr)

\* C8 amended: for a matched route and a status the operation declares nothing
\* for, the handler's response validation succeeds exactly when the operation
\* declares no response at all, the request is a HEAD, or the status is 301,
\* 304, 307 or 308; otherwise it fails with "status is not supported" (the
\* handler sets IncludeResponseStatus).
C8_UndeclaredStatusRefused ==
    \A r \in DOMAIN req :
        (Undeclared(req[r]) /\ req[r].respValidated > 0) =>
            IF \/ ResponsesLen(req[r].route[1].Responses) = 0
               \/ req[r].method = "HEAD"
               \/ req[r].backend.status \in {301, 304, 307, 308}
            THEN IsNil(req[r].respErr)
            ELSE req[r].respErr = ResponseError(S("status is not supported"))

\* C8 witness: a GET answered 404 by an operation that declares only 200,
\* refused by response validation.
C8_Witness ==
    \E r \in DOMAIN req :
        /\ Undeclared(req[r])
        /\ req[r].respValidated = 1
        /\ req[r].route = <<Op200>>
        /\ req[r].method = "GET"
        /\ req[r].backend.status = 404
        /\ req[r].respErr = ResponseError(S("status is not supported"))

\* A later reader gets the original bytes out of the input's body
Recoverable(out, original) ==
    /\ out.Body # <<>>
    /\ ~ReadAll(out.Body[1]).err
    /\ ReadAll(out.Body[1]).data = original.data

VRWithBody == VRCalled /\ vrIn[1].input.Body # <<>> /\ ~vrOut[1].panic

\* The input's body after the call: untouched when the call did not read it,
\* and otherwise giving the original bytes to a later reader
BodyIntact(out, original) ==
    IF out.reads = 0 THEN out.Body = <<original>> ELSE Recoverable(out, original)

\* C9 as stated: whatever ValidateResponse returns, the input's body can be
\* read afterwards and gives the original bytes, and the original stream was
\* read at most once.
C9_BodyRecoverable ==
    VRWithBody =>
        /\ vrOut[1].reads <= 1
        /\ BodyIntact(vrOut[1], vrIn[1].input.Body[1])

\* C9 amended: the original stream is read at most once, and the input's body
\* can be read after the call and gives the original bytes, whatever the call
\* returned - except when reading the stream failed: then the call returns
\* "failed to read response body" and leaves the input without a body.
C9_BodyRecoverableUnlessReadFails ==
    VRWithBody =>
        /\ vrOut[1].reads <= 1
        /\ IF vrOut[1].reads = 1 /\ vrIn[1].input.Body[1].bad
           THEN /\ vrOut[1].err = ResponseError(S("failed to read response body"))
                /\ vrOut[1].Body = <<>>
           ELSE BodyIntact(vrOut[1], vrIn[1].input.Body[1])

\* C9 witness: a two-byte body was read once, failed the schema, and is back
\* in the input.
C9_Witness ==
    /\ VRWithBody
    /\ vrIn[1].input.Body[1] = NewReader(<<0, 1>>)
    /\ vrOut[1].reads = 1
    /\ vrOut[1].err = ResponseError(S("response body doesn't match the schema"))
    /\ vrOut[1].Body = <<NewReader(<<0, 1>>)>>

AModeBlocks ==
    cfg.RequestValidation = ValidationBlock \/ cfg.ResponseValidation = ValidationBlock

NothingPerformed(rec) ==
    /\ rec.proxied = 0
    /\ rec.shadowed = 0
    /\ rec.reqValidated = 0
    /\ rec.respValidated = 0

\* C10 as stated: with no matched route and a mode set to Block, every request
\* is answered with the configured block status code, and neither the backend
\* call, the shadow-API check nor a validation is performed.
C10_NotFoundBlock ==
    \A r \in DOMAIN req :
        (~Matched(req[r]) /\ AModeBlocks /\ Done(req[r])) =>
            /\ BlockedResponse(req[r])
            /\ NothingPerformed(req[r])

\* C10 amended: with no matched route and a mode set to Block, a request that
\* acquired its connection-pool client is answered at once with the configured
\* block status code, and one whose acquisition failed with 503; in both cases
\* neither the backend call, the shadow-API check nor a validation is performed.
C10_NotFoundBlockOnceAcquired ==
    \A r \in DOMAIN req :
        (~Matched(req[r]) /\ AModeBlocks /\ req[r].pc \notin {"idle", "dispatch"}) =>
            /\ Done(req[r])
            /\ NothingPerformed(req[r])
            /\ req[r].pgets = 0
            /\ IF req[r].gets = 1
               THEN req[r].exit = "notfoundblock" /\ BlockedResponse(req[r])
               ELSE req[r].exit = "poolfail"
                    /\ req[r].resp.status = StatusServiceUnavailable

\* C10 witness: no route, request mode LogOnly and response mode Block: blocked.
C10_Witness ==
    \E r \in DOMAIN req :
        /\ ~Matched(req[r])
        /\ req[r].gets = 1
        /\ cfg.RequestValidation = ValidationLog
        /\ cfg.ResponseValidation = ValidationBlock
        /\ Done(req[r])
        /\ BlockedResponse(req[r])

\* C11: the shadow-API check runs only for a request with no matched route, with
\* neither mode Block and a mode LogOnly; for such a request the backend is called
\* once, and what the handler returns and what the client receives are those of
\* the backend call alone, the same whether the check succeeded or failed.
C11_ShadowCheckLogged ==
    \A r \in DOMAIN req :
        req[r].shadowed > 0 =>
            /\ ~Matched(req[r])
            /\ cfg.RequestValidation # ValidationBlock
            /\ cfg.ResponseValidation # ValidationBlock
            /\ (cfg.RequestValidation = ValidationLog \/ cfg.ResponseValidation = ValidationLog)
            /\ req[r].shadowed = 1
            /\ req[r].proxied = 1
            /\ req[r].reqValidated = 0
            /\ req[r].respValidated = 0
            /\ Done(req[r])
            /\ req[r].ret = performProxy(req[r].backend).err
            /\ req[r].resp = performProxy(req[r].backend).resp

\* C11 witness: no route, request mode LogOnly, the backend answered 404, the
\* shadow-API check failed, and the client has the backend's answer with a nil return.
C11_Witness ==
    \E r \in DOMAIN req :
        /\ req[r].shadowed = 1
        /\ ~IsNil(req[r].shadowErr)
        /\ ~Matched(req[r])
        /\ cfg.RequestValidation = ValidationLog
        /\ req[r].backend.status = 404
        /\ PassedThrough(req[r])
        /\ req[r].ret = "nil"

BackendAnswered(rec) == Done(rec) /\ rec.backend.kind = "ok"

ResponseValidationFailed(rec) == rec.respValidated > 0 /\ ~IsNil(rec.respErr)

\* C12: for a request whose backend call succeeded: when response validation
\* fails, response mode Block gives the client the configured block status code
\* in place of the backend's response and response mode LogOnly gives it the
\* backend's response unchanged; when response validation succeeds, does not
\* run, or the response mode is Disabled, the backend's response is unchanged.
C12_ResponseModes ==
    \A r \in DOMAIN req :
        BackendAnswered(req[r]) =>
            /\ (ResponseValidationFailed(req[r]) /\ cfg.ResponseValidation = ValidationBlock) =>
                  /\ BlockedResponse(req[r])
                  /\ req[r].exit = "respblock"
            /\ (ResponseValidationFailed(req[r]) /\ cfg.ResponseValidation = ValidationLog) =>
                  /\ PassedThrough(req[r])
                  /\ req[r].ret = "nil"
            /\ (~ResponseValidationFailed(req[r]) \/ cfg.ResponseValidation = ValidationDisable) =>
                  /\ PassedThrough(req[r])
                  /\ req[r].ret = "nil"
            /\ (cfg.ResponseValidation = ValidationDisable => req[r].respValidated = 0)

\* C12 witness: response mode LogOnly, the backend's body failed its schema, and
\* the client has the backend's 200 and body.
C12_Witness ==
    \E r \in DOMAIN req :
        /\ BackendAnswered(req[r])
        /\ cfg.ResponseValidation = ValidationLog
        /\ req[r].respErr = ResponseError(S("response body doesn't match the schema"))
        /\ req[r].backend.status = 200
        /\ req[r].backend.body = <<0, 1>>
        /\ PassedThrough(req[r])

EncCalled == encIn # <<>> /\ encOut # <<>>

\* A RequestError that carries a named parameter
NamedParameter(err) == err.type = "RequestError" /\ err.Parameter # <<>>

\* The reason the diagnostic is to carry: the error's own, else the wrapped schema error's
DiagnosticReason(err) == IF err.Reason # EmptyStr THEN err.Reason ELSE err.Err.Reason

\* There is a reason to emit: the error has one, or wraps a schema error that has one
ReasonGiven(err) ==
    \/ err.Reason # EmptyStr
    \/ (err.Err.type = "SchemaError" /\ err.Err.Reason # EmptyStr)

\* C13 as stated: for a request error that carries a named parameter the encoder
\* emits request-parameter:<reason>:<paramName>, with the parameter's name and
\* with the error's own reason, or the wrapped schema error's when its own is empty.
C13_NamesTheParameter ==
    (EncCalled /\ NamedParameter(encIn[1].err) /\ ReasonGiven(encIn[1].err)) =>
        \A i \in 1..Len(encOut) :
            encOut[i] = <<S("request-parameter:") \o DiagnosticReason(encIn[1].err)
                          \o S(":") \o encIn[1].err.Parameter[1]>>

\* C13, what the encoder does: the parameter's name is emitted only when the
\* error's own reason is empty; with a reason of its own the third field is the
\* literal "request-parameter".
C13_NameOnlyWithoutOwnReason ==
    (EncCalled /\ NamedParameter(encIn[1].err) /\ ReasonGiven(encIn[1].err)) =>
        \A i \in 1..Len(encOut) :
            encOut[i] = <<S("request-parameter:") \o DiagnosticReason(encIn[1].err) \o S(":")
                          \o (IF encIn[1].err.Reason = EmptyStr
                              THEN encIn[1].err.Parameter[1] ELSE S("request-parameter"))>>

\* C13 witness: parameter petId, own reason "must be an integer": the value
\* emitted ends in request-parameter, not in petId.
C13_Witness ==
    /\ EncCalled
    /\ encIn[1].err.Parameter = <<S("petId")>>
    /\ encIn[1].err.Reason = S("must be an integer")
    /\ encOut[1] = <<S("request-parameter:") \o S("must be an integer") \o S(":")
                     \o S("request-parameter")>>

CalledTwice == encIn # <<>> /\ Len(encOut) = 2

\* A security-requirements error with a requirement that names more than one scheme
MultiScheme(err) ==
    /\ err.type = "SecurityRequirementsError"
    /\ \E i \in 1..Len(err.SecurityRequirements) :
          Cardinality(err.SecurityRequirements[i]) > 1

\* C14 as stated: two encoder calls given the same error, response status and
\* content type return the same string, or both return no value, for all three
\* error shapes.
C14_Deterministic == CalledTwice => encOut[1] = encOut[2]

\* C14, what the encoder does: two calls on the same input agree for every error
\* but a security-requirements error with a requirement naming more than one
\* scheme, whose names come out in the order the map is ranged over.
C14_DeterministicButMapOrder ==
    (CalledTwice /\ ~MultiScheme(encIn[1].err)) => encOut[1] = encOut[2]

\* C14 witness: one requirement naming basicAuth and apiKey, encoded twice, with
\* the names in one order the first time and in the other the second.
C14_Witness ==
    /\ CalledTwice
    /\ encIn[1].err.SecurityRequirements = <<{S("basicAuth"), S("apiKey")}>>
    /\ encOut[1] # encOut[2]
    /\ encOut[1] # <<>>
    /\ encOut[2] # <<>>

\* The client's response carries an APIFW-Validation-Status value
Diagnosed(rec) == rec.resp.vs # <<>>

BlockingExits == {"notfoundblock", "reqblock", "respblock"}

\* C15: a diagnostic value is on a client response only with the diagnostic
\* header option enabled and only on a blocking response (route-not-found block,
\* request-validation block, response-validation block); with the option
\* disabled, and on every proxied, logged-only or gateway-error response, there
\* is none.
C15_DiagnosticOnlyOnBlock ==
    \A r \in DOMAIN req :
        /\ Diagnosed(req[r]) =>
              /\ cfg.AddValidationStatusHeader
              /\ Done(req[r])
              /\ req[r].exit \in BlockingExits
              /\ BlockedResponse(req[r])
        /\ (Done(req[r]) /\ req[r].exit \notin BlockingExits) => ~Diagnosed(req[r])
        /\ ~cfg.AddValidationStatusHeader => ~Diagnosed(req[r])
        /\ (req[r].exit = "notfoundblock" /\ cfg.AddValidationStatusHeader) =>
              req[r].resp.vs = <<S("request: route not found")>>

\* C15 witness: response mode Block, an undeclared status, the header enabled:
\* the block response carries the encoder's value.
C15_Witness ==
    \E r \in DOMAIN req :
        /\ req[r].exit = "respblock"
        /\ cfg.AddValidationStatusHeader
        /\ req[r].respErr = ResponseError(S("status is not supported"))
        /\ Diagnosed(req[r])
        /\ BlockedResponse(req[r])

\* One step of request r, seen from both its ends, keeps the order of the handler
InOrder(r) ==
    /\ req'[r].reqValidated > req[r].reqValidated =>
          /\ req[r].proxied = 0
          /\ req[r].respValidated = 0
          /\ req[r].backend = NoBackend
    /\ req'[r].authed > req[r].authed =>
          /\ req'[r].reqValidated > req[r].reqValidated
          /\ req[r].proxied = 0
    /\ req'[r].proxied > req[r].proxied =>
          /\ req[r].proxied = 0
          /\ req[r].respValidated = 0
          /\ req'[r].respValidated = 0
          /\ (RequestValidationRuns(cfg.RequestValidation) => req[r].reqValidated = 1)
    /\ req'[r].respValidated > req[r].respValidated =>
          /\ req[r].proxied = 1
          /\ req'[r].proxied = 1
          /\ req[r].backend.kind = "ok"
          /\ req[r].respValidated = 0
    /\ req'[r].respValidated > 0 =>
          /\ req'[r].proxied = 1
          /\ req'[r].backend.kind = "ok"
    /\ cfg.RequestValidation = ValidationDisable =>
          /\ req'[r].reqValidated = 0
          /\ req'[r].authed = 0

\* C16: for a request with a matched route the steps are strictly ordered:
\* request validation (which runs the authentication function), if it runs, is
\* over before the backend call starts; the backend call has succeeded before
\* response validation starts; response validation never runs when the backend
\* call was not made or failed; and with request mode Disabled neither request
\* validation nor the authentication function runs.
C16_StrictOrder ==
    [][\A r \in DOMAIN req : Matched(req'[r]) => InOrder(r)]_vars

\* C16 witness: a matched request went through all three steps, each once and
\* in order, with the authentication function run inside request validation.
C16_Witness ==
    \E r \in DOMAIN req :
        /\ Matched(req[r])
        /\ Done(req[r])
        /\ req[r].reqValidated = 1
        /\ req[r].authed = 1
        /\ req[r].proxied = 1
        /\ req[r].respValidated = 1
        /\ req[r].exit = "normal"

\* The response definition the call resolves for the status: the one declared
\* for it, else the default
ResolvedFor(input) ==
    IF input.Status \in DOMAIN input.Route[1].Responses.codes
    THEN <<input.Route[1].Responses.codes[input.Status]>>
    ELSE input.Route[1].Responses.def

\* The call got as far as a resolved response definition
Resolved(input) ==
    /\ ~EarlyOut(input)
    /\ input.Route # <<>>
    /\ ResolvedFor(input) # <<>>
    /\ ResolvedFor(input)[1].Value # <<>>

ResolvedContent(input) == ResolvedFor(input)[1].Value[1].Content

BodyExcluded(input) == input.Options # <<>> /\ input.Options[1].ExcludeResponseBody

\* The content entry for the Content-Type: its own, or the one for the type
\* before its parameters
EntryFor(input) ==
    IF input.HeaderCT \in DOMAIN ResolvedContent(input)
    THEN <<ResolvedContent(input)[input.HeaderCT]>>
    ELSE IF SplitSemiFirst(input.HeaderCT) \in DOMAIN ResolvedContent(input)
    THEN <<ResolvedContent(input)[SplitSemiFirst(input.HeaderCT)]>>
    ELSE <<>>

\* Success with the body untouched
SkippedAsValid(out, input) ==
    /\ IsNil(out.err)
    /\ ~out.panic
    /\ out.reads = 0
    /\ ~out.closed
    /\ out.Body = input.Body

\* C17 as stated: once a response definition is resolved, ValidateResponse
\* returns success without reading the body when body validation is excluded,
\* when the response declares no content, and when the Content-Type has no
\* schema declared among the content entries (no entry, or an entry without one).
C17_SkipsWithoutSchema ==
    (VRCalled /\ Resolved(vrIn[1].input)) =>
        ((\/ BodyExcluded(vrIn[1].input)
          \/ DOMAIN ResolvedContent(vrIn[1].input) = {}
          \/ EntryFor(vrIn[1].input) = <<>>
          \/ EntryFor(vrIn[1].input)[1].Schema = <<>>)
            => SkippedAsValid(vrOut[1], vrIn[1].input))

\* C17 amended: success without reading the body when body validation is
\* excluded, when the response declares no content, and when the entry for the
\* Content-Type declares no schema; a Content-Type with no entry at all is
\* refused, also without reading the body.
C17_SkipsOrRefusesContentType ==
    (VRCalled /\ Resolved(vrIn[1].input)) =>
        IF \/ BodyExcluded(vrIn[1].input)
           \/ DOMAIN ResolvedContent(vrIn[1].input) = {}
        THEN SkippedAsValid(vrOut[1], vrIn[1].input)
        ELSE IF EntryFor(vrIn[1].input) = <<>>
        THEN /\ vrOut[1].err =
                  ResponseError(S("response header Content-Type has unexpected value: ")
                                \o Quote(vrIn[1].input.HeaderCT))
             /\ vrOut[1].reads = 0
             /\ vrOut[1].Body = vrIn[1].input.Body
        ELSE (EntryFor(vrIn[1].input)[1].Schema = <<>>
                => SkippedAsValid(vrOut[1], vrIn[1].input))

\* C17 witness: 200 declared with application/json and no schema, the response
\* sent as application/json with a charset: valid, body not read.
C17_Witness ==
    /\ VRCalled
    /\ vrIn[1].input.Method = "GET"
    /\ vrIn[1].input.Status = 200
    /\ vrIn[1].input.Route = <<OpNoSchema>>
    /\ vrIn[1].input.HeaderCT = MimeJSONCharset
    /\ vrIn[1].input.Body # <<>>
    /\ SkippedAsValid(vrOut[1], vrIn[1].input)

\* Response validation ran for a request whose Content-Type is not the response's
ValidatedAcrossTypes(rec) ==
    /\ rec.respValidated > 0
    /\ rec.backend.kind = "ok"
    /\ rec.reqCT # rec.backend.ct

\* C18 as stated: when the handler runs response validation for a request whose
\* own Content-Type differs from the response's, the Content-Type that selects
\* the response schema is the one of the backend's response.
C18_ResponseContentTypeUsed ==
    \A r \in DOMAIN req :
        ValidatedAcrossTypes(req[r]) => req[r].inputMIME = req[r].backend.ct

\* C18, what the handler does: the Content-Type given to response validation is
\* the request's.
C18_RequestContentTypeUsed ==
    \A r \in DOMAIN req :
        req[r].respValidated > 0 => req[r].inputMIME = req[r].reqCT

\* C18 witness: a text/plain GET answered 200 application/json with a body that
\* fits the declared application/json schema, refused because text/plain is not
\* among the declared content types.
C18_Witness ==
    \E r \in DOMAIN req :
        /\ ValidatedAcrossTypes(req[r])
        /\ req[r].method = "GET"
        /\ req[r].route = <<Op200>>
        /\ req[r].reqCT = MimeText
        /\ req[r].backend = BackendResponse(200, <<0, 1>>, MimeJSON)
        /\ req[r].inputMIME = MimeText
        /\ req[r].respErr =
              ResponseError(S("response header Content-Type has unexpected value: ")
                            \o Quote(MimeText))

\* C19: under every pair of modes over Disabled, LogOnly and Block, a request
\* with no matched route returns before the validation input is built: request
\* and response validation are never invoked for it, the authentication
\* function does not run, and it acquires no parser.
C19_NoRouteNeverValidated ==
    \A r \in DOMAIN req :
        ~Matched(req[r]) =>
            /\ req[r].pc \in {"idle", "dispatch", "proxy", "done"}
            /\ (req[r].pc = "proxy" => req[r].path \in {"bare", "shadow"})
            /\ req[r].reqValidated = 0
            /\ req[r].authed = 0
            /\ req[r].respValidated = 0
            /\ req[r].pgets = 0
            /\ ~req[r].parser
            /\ Done(req[r]) =>
                  req[r].exit \in {"poolfail", "bare", "notfoundblock", "notfoundlog", "transport"}

\* C19 witness: no route, request mode Disabled and response mode LogOnly: the
\* request left by the shadow-API branch with the backend's answer.
C19_Witness ==
    \E r \in DOMAIN req :
        /\ ~Matched(req[r])
        /\ cfg.RequestValidation = ValidationDisable
        /\ cfg.ResponseValidation = ValidationLog
        /\ req[r].exit = "notfoundlog"
        /\ req[r].pgets = 0
        /\ req[r].respValidated = 0

AuthCalled == authIn # <<>> /\ authOut # <<>>

\* The Authorization value starts with the word, in any case, and a space
StartsWith(authorization, words) ==
    /\ Len(authorization) >= 2
    /\ authorization[1] \in words
    /\ authorization[2] = " "

\* The schemes the function knows
Recognised(input) ==
    \/ (input.Type = "http" /\ input.Scheme \in {"basic", "bearer"})
    \/ input.Type \in {"oauth2", "openIdConnect"}
    \/ (input.Type = "apiKey" /\ input.In \in {"header", "query", "cookie"})

\* The credential such a scheme asks for is not there
CredentialMissing(input) ==
    \/ /\ input.Type = "http"
       /\ input.Scheme = "basic"
       /\ ~StartsWith(input.Authorization, {"basic", "Basic", "BASIC"})
    \/ /\ input.Type = "http"
       /\ input.Scheme = "bearer"
       /\ ~StartsWith(input.Authorization, {"bearer", "Bearer", "BEARER"})
    \/ /\ input.Type \in {"oauth2", "openIdConnect"}
       /\ input.oauthValidator \in {"nil", "reject"}
    \/ (input.Type = "apiKey" /\ input.In = "header" /\ input.Header = EmptyStr)
    \/ (input.Type = "apiKey" /\ input.In = "query" /\ input.Query = EmptyStr)
    \/ (input.Type = "apiKey" /\ input.In = "cookie" /\ ~input.Cookie)

\* C20: the authentication function fails only for the schemes it recognises -
\* http basic and bearer without the matching Authorization prefix,
\* oauth2/openIdConnect without a validator or with one that rejects, apiKey in
\* header, query or cookie with the named key missing - and for every other
\* scheme type, http scheme and apiKey location it returns success without
\* looking at any credential.
C20_FailsOnlyForRecognised ==
    AuthCalled =>
        /\ (authOut[1].err # <<>>) = CredentialMissing(authIn[1])
        /\ (authOut[1].err # <<>> => Recognised(authIn[1]))
        /\ ~Recognised(authIn[1]) =>
              /\ authOut[1].err = <<>>
              /\ authOut[1].inspected = {}

\* C20 witness: an http scheme named digest, on a request with no Authorization
\* header, no key and no cookie: success, nothing looked at.
C20_Witness ==
    /\ AuthCalled
    /\ authIn[1].Type = "http"
    /\ authIn[1].Scheme = "digest"
    /\ authIn[1].Authorization = EmptyStr
    /\ authIn[1].Header = EmptyStr
    /\ ~authIn[1].Cookie
    /\ authOut[1] = AuthOK({})

====
